---- MODULE Spec2Model ----
(***************************************************************************)
(* Secure file shredder (src/secure-file-shredder.py): the path guard, the *)
(* file list and its handlers, the batch scheduler, the shred executor,    *)
(* the log sink and the free-space wiper.                                  *)
(*                                                                         *)
(* A path is a sequence of one-character strings, so that the raw          *)
(* str.startswith of the guard and "lies under a directory" are two        *)
(* different relations, as they are in the code.                           *)
(***************************************************************************)
EXTENDS Integers, Sequences, FiniteSets, TLC

(***************************************************************************)
(* Bounds of the model.                                                    *)
(***************************************************************************)
\* longest file list the window's handlers build
MaxList == 2
\* batches started in one run of the window
MaxBatches == 1
\* window events handled while a batch is running
MaxBusyEvents == 1
\* random.randint(0, 9999999) of destroy_metadata draws from 0..MaxRand
MaxRand == 1
\* file sizes 0..MaxSmall, and sizes up to MaxOver above ten chunks
MaxSmall == 2
MaxOver == 2
\* positive chunk_size settings are 1..MaxChunk
MaxChunk == 2
\* largest pass count asked for
MaxPasses == 2
\* largest max_workers setting
MaxWorkers == 2

(***************************************************************************)
(* Paths of the modelled machine.  Names are abbreviated to one letter per *)
(* component: /e is /etc, /S is /System (absent here), /h is the user's    *)
(* home, /h/d is ~/Documents, /hx a directory beside the home              *)
(* whose name begins with the home's name, /d a data directory.            *)
(***************************************************************************)
SL == <<"/">>
D_root == <<"/">>
D_etc == <<"/", "e">>
D_System == <<"/", "S">>
D_home == <<"/", "h">>
D_Desktop == <<"/", "h", "/", "k">>
D_Documents == <<"/", "h", "/", "d">>
D_Downloads == <<"/", "h", "/", "l">>
D_docetc == <<"/", "h", "/", "d", "/", "e">>
D_hx == <<"/", "h", "x">>
D_data == <<"/", "d">>
\* the process's working directory
cwd == D_etc

F_shadow == <<"/", "e", "/", "s">>
F_secret == <<"/", "h", "/", "d", "/", "e", "/", "s">>
F_hx == <<"/", "h", "x", "/", "f">>
F_data == <<"/", "d", "/", "f">>
\* /etc/shadow as typed from inside /etc
F_rel == <<"s">>

\* directories and regular files present when the program starts
DiskDirs == {D_root, D_etc, D_home, D_Documents, D_docetc, D_hx, D_data}
DiskFiles == {F_shadow, F_secret, F_hx, F_data}

(***************************************************************************)
(* os.path                                                                 *)
(***************************************************************************)
RECURSIVE SplitFrom(_, _, _, _)
\* the components of p from position i on ("/" separates, empty ones drop)
SplitFrom(p, i, cur, comps) ==
    IF i > Len(p)
    THEN IF cur = <<>> THEN comps ELSE Append(comps, cur)
    ELSE IF p[i] = "/"
         THEN SplitFrom(p, i + 1, <<>>, IF cur = <<>> THEN comps ELSE Append(comps, cur))
         ELSE SplitFrom(p, i + 1, Append(cur, p[i]), comps)

RECURSIVE Collapse(_, _, _)
\* posixpath.normpath on an absolute path's components: "." drops, ".." pops
Collapse(comps, i, acc) ==
    IF i > Len(comps) THEN acc
    ELSE IF comps[i] = <<".">> THEN Collapse(comps, i + 1, acc)
    ELSE IF comps[i] = <<".", ".">>
         THEN Collapse(comps, i + 1, IF acc = <<>> THEN acc ELSE SubSeq(acc, 1, Len(acc) - 1))
         ELSE Collapse(comps, i + 1, Append(acc, comps[i]))

RECURSIVE JoinFrom(_, _)
JoinFrom(comps, i) ==
    IF i > Len(comps) THEN <<>> ELSE SL \o comps[i] \o JoinFrom(comps, i + 1)

\* os.path.abspath: join with the working directory unless absolute, normalise
abspath(p) ==
    LET full == IF Len(p) > 0 /\ p[1] = "/" THEN p ELSE cwd \o SL \o p
        comps == Collapse(SplitFrom(full, 1, <<>>, <<>>), 1, <<>>)
    IN IF comps = <<>> THEN SL ELSE JoinFrom(comps, 1)

\* os.path.join(root, file) for a relative file
join(root, file) ==
    IF root # <<>> /\ root[Len(root)] = "/" THEN root \o file ELSE root \o SL \o file

\* str.startswith
startswith(s, prefix) ==
    Len(prefix) <= Len(s) /\ SubSeq(s, 1, Len(prefix)) = prefix

\* The file system's own relation: path names dir or something inside it.
LiesUnder(path, dir) ==
    LET p == abspath(path)
        d == abspath(dir)
    IN \/ p = d
       \/ d = SL
       \/ startswith(p, d \o SL)

(***************************************************************************)
(* Path guard                                                              *)
(***************************************************************************)
\* the entries of the built-in list, line 53-58, on a POSIX machine
BuiltinProtected == <<D_System, D_etc>>

exists(p, files) == abspath(p) \in files \/ abspath(p) \in DiskDirs

isfile(p, files) == abspath(p) \in files

isdir(p) == abspath(p) \in DiskDirs

\* is_protected_location builds this list on every call
user_dirs == <<D_home, D_Desktop, D_Documents, D_Downloads>>

SeqRange(s) == {s[i] : i \in 1..Len(s)}

\* is_protected_location with the two loops in the other order
is_protected_location_denylist_first(path, protected) ==
    LET abs_path == abspath(path)
    IN IF \E protected_dir \in protected :
              /\ abspath(protected_dir) # <<>>
              /\ startswith(abs_path, abspath(protected_dir))
       THEN TRUE
       ELSE FALSE

is_protected_location(path, protected) ==
    LET abs_path == abspath(path)
    IN IF \E i \in 1..Len(user_dirs) : startswith(abs_path, abspath(user_dirs[i]))
       THEN FALSE
       ELSE \E protected_dir \in protected :
                /\ abspath(protected_dir) # <<>>
                /\ startswith(abs_path, abspath(protected_dir))

\* _get_protected_dirs: the built-in entries and the configuration's, those
\* that exist, made absolute, without duplicates.  protected_dirs never holds
\* an entry twice (line 65, 237) and only membership in it is read (line 302),
\* so the list is kept as the set of its entries.
_get_protected_dirs(custom_dirs, files) ==
    {abspath(p) : p \in {q \in SeqRange(BuiltinProtected \o custom_dirs) : exists(q, files)}}

(***************************************************************************)
(* Pattern generator                                                       *)
(***************************************************************************)
\* a byte string is a sequence of numbers 0..255
Repeat(block, n) ==
    IF n <= 0 \/ block = <<>> THEN <<>>
    ELSE [k \in 1..(Len(block) * n) |-> block[((k - 1) % Len(block)) + 1]]

\* bytes[a:b]
Slice(buf, a, b) ==
    SubSeq(buf, (IF a < Len(buf) THEN a ELSE Len(buf)) + 1, IF b < Len(buf) THEN b ELSE Len(buf))

\* os.urandom(n), the draw being byte r n times
urandom(n, r) == Repeat(<<r>>, n)

\* the bytes os.urandom is seen to draw
RandomBytes == {19, 236}

\* DEFAULT_CONFIG["overwrite_patterns"], line 22-28
PatternNames == {"Zero Fill", "One Fill", "DoD 5220.22-M", "Random Data", "Gutmann"}
overwrite_patterns ==
    [name \in PatternNames |->
        CASE name = "Zero Fill" -> [kind |-> "bytes", pattern |-> <<0>>]
          [] name = "One Fill" -> [kind |-> "bytes", pattern |-> <<255>>]
          [] name = "DoD 5220.22-M" ->
                 [kind |-> "list", pattern |-> <<<<85>>, <<170>>, <<146, 73, 36, 146>>>>]
          [] name = "Random Data" -> [kind |-> "str", pattern |-> "random"]
          [] name = "Gutmann" -> [kind |-> "str", pattern |-> "gutmann"]]

\* the table's entry i with entries 19..33 copied, not complemented
gutmann_entry_copied(i, r) ==
    IF i < 4 THEN <<r>>
    ELSE IF i < 19
    THEN IF i % 2 = 0 THEN Repeat(<<i % 256>>, 4) ELSE Repeat(<<(i * 16) % 256>>, 4)
    ELSE IF i < 34
    THEN LET j == i - 15
         IN IF j % 2 = 0 THEN Repeat(<<j % 256>>, 4) ELSE Repeat(<<(j * 16) % 256>>, 4)
    ELSE <<r>>

\* _generate_gutmann_patterns, entry i (0-based), r the random draw
gutmann_entry(i, r) ==
    IF i < 4 THEN <<r>>
    ELSE IF i < 19
    THEN IF i % 2 = 0 THEN Repeat(<<i % 256>>, 4) ELSE Repeat(<<(i * 16) % 256>>, 4)
    ELSE IF i < 34
    THEN LET j == i - 15
             prev == IF j % 2 = 0 THEN Repeat(<<j % 256>>, 4) ELSE Repeat(<<(j * 16) % 256>>, 4)
         IN [k \in 1..Len(prev) |-> 255 - prev[k]]
    ELSE <<r>>

\* the table as a sequence; entry i of the code is element i + 1
_generate_gutmann_patterns(r) == [n \in 1..35 |-> gutmann_entry(n - 1, r)]

\* get_overwrite_pattern taking the first block of a list in every pass
get_overwrite_pattern_first_block(pass_num, file_size, pattern_name, gutmann, r) ==
    IF pattern_name \notin DOMAIN overwrite_patterns
    THEN Repeat(urandom(1, r), file_size)
    ELSE LET pattern_config == overwrite_patterns[pattern_name]
             pattern == pattern_config.pattern
         IN IF pattern_config.kind = "str" /\ pattern = "random"
            THEN urandom(file_size, r)
            ELSE IF pattern_config.kind = "str" /\ pattern = "gutmann"
            THEN Repeat(gutmann[(pass_num % Len(gutmann)) + 1],
                        (file_size \div Len(gutmann[1])) + 1)
            ELSE IF pattern_config.kind = "list"
            THEN Repeat(pattern[1], (file_size \div Len(pattern[1])) + 1)
            ELSE IF pattern_config.kind = "bytes"
            THEN Repeat(pattern, file_size)
            ELSE Repeat(urandom(1, r), file_size)

\* get_overwrite_pattern(pass_num, file_size): the buffer for one pass
get_overwrite_pattern(pass_num, file_size, pattern_name, gutmann, r) ==
    IF pattern_name \notin DOMAIN overwrite_patterns
    THEN Repeat(urandom(1, r), file_size)
    ELSE LET pattern_config == overwrite_patterns[pattern_name]
             pattern == pattern_config.pattern
         IN IF pattern_config.kind = "str" /\ pattern = "random"
            THEN urandom(file_size, r)
            ELSE IF pattern_config.kind = "str" /\ pattern = "gutmann"
            THEN Repeat(gutmann[(pass_num % Len(gutmann)) + 1],
                        (file_size \div Len(gutmann[1])) + 1)
            ELSE IF pattern_config.kind = "list"
            THEN Repeat(pattern[(pass_num % Len(pattern)) + 1],
                        (file_size \div Len(pattern[1])) + 1)
            ELSE IF pattern_config.kind = "bytes"
            THEN Repeat(pattern, file_size)
            ELSE Repeat(urandom(1, r), file_size)

(***************************************************************************)
(* The file list and its handlers                                          *)
(***************************************************************************)
VARIABLES cli_mode, files_to_shred, protected_dirs, disk, adv_open, ui_enabled,
          max_workers, b_pc, total_files, success_count, futures, seq_i,
          outcomes, batch_protected, batch_list, batches, busy_events

appVars == <<cli_mode, files_to_shred, protected_dirs, disk, adv_open, ui_enabled,
             max_workers, b_pc, total_files, success_count, futures, seq_i,
             outcomes, batch_protected, batch_list, batches, busy_events>>

\* the state of one call of shred_file
VARIABLES os_name, locked, openable, dir, content, mtime_random, size0,
          chunk_size, passes, verify, destroy_metadata, pattern_var,
          gutmann_patterns, s_pc, file_path, file_size, temp_name, renames,
          names_used, pass_i, writes, result

shredVars == <<os_name, locked, openable, dir, content, mtime_random, size0,
               chunk_size, passes, verify, destroy_metadata, pattern_var,
               gutmann_patterns, s_pc, file_path, file_size, temp_name, renames,
               names_used, pass_i, writes, result>>

\* the log sink
VARIABLES l_pc, emitted, sink, widget_state

logVars == <<l_pc, emitted, sink, widget_state>>

\* the state of one call of wipe_free_space
VARIABLES w_pc, free_space, temp_exists, created, tell, fill_at, shred_called, success

wipeVars == <<w_pc, free_space, temp_exists, created, tell, fill_at, shred_called,
              success>>

\* one question put to the path guard
VARIABLES g_pc, asked, answer

guardVars == <<g_pc, asked, answer>>

\* the buffer get_overwrite_pattern returned last
VARIABLES pattern_buf

patternVars == <<pattern_buf>>

\* what each part of the program leaves alone while another one runs
appFrame == <<shredVars, logVars, wipeVars, guardVars, patternVars>>
shredFrame == <<files_to_shred, protected_dirs, disk, adv_open, ui_enabled,
                max_workers, b_pc, total_files, success_count, futures, seq_i,
                outcomes, batch_protected, batch_list, batches, busy_events,
                logVars, wipeVars, guardVars, patternVars>>
logFrame == <<appVars, shredVars, wipeVars, guardVars, patternVars>>
wipeFrame == <<appVars, shredVars, logVars, guardVars, patternVars>>
guardFrame == <<appVars, shredVars, logVars, wipeVars, patternVars>>

listVars == <<files_to_shred, protected_dirs, adv_open, max_workers, busy_events>>
batchVars == <<b_pc, total_files, success_count, futures, seq_i, outcomes,
               batch_protected, batch_list, disk, ui_enabled, batches>>

\* os.walk lists a directory's files in the order the file system gives
WalkOrder == <<F_data, F_hx, F_secret, F_shadow>>

\* the path os.walk and os.path.join build for file f found below folder
WalkPath(folder, f) ==
    LET a == abspath(folder)
        rest == SubSeq(f, Len(a) + (IF a = SL THEN 1 ELSE 2), Len(f))
    IN join(folder, rest)

RECURSIVE _add_folder_contents(_, _, _, _, _)
\* the list after _add_folder_contents(folder_path), from position i of the walk
_add_folder_contents(list, folder_path, protected, files, i) ==
    IF i > Len(WalkOrder) THEN list
    ELSE LET f == WalkOrder[i]
             found == WalkPath(folder_path, f)
         IN IF /\ f \in files
               /\ f # abspath(folder_path)
               /\ LiesUnder(f, folder_path)
               /\ found \notin SeqRange(list)
               /\ ~is_protected_location(found, protected)
            THEN _add_folder_contents(Append(list, found), folder_path, protected, files, i + 1)
            ELSE _add_folder_contents(list, folder_path, protected, files, i + 1)

RECURSIVE AddFilesFrom(_, _, _, _)
\* add_files: the loop over the dialog's selection
AddFilesFrom(list, files, protected, i) ==
    IF i > Len(files) THEN list
    ELSE IF files[i] \notin SeqRange(list) /\ ~is_protected_location(files[i], protected)
         THEN AddFilesFrom(Append(list, files[i]), files, protected, i + 1)
         ELSE AddFilesFrom(list, files, protected, i + 1)

RECURSIVE Find(_, _, _)
\* str.find(ch, from): the first position at or after from, 0 when there is none
Find(s, ch, from) ==
    IF from > Len(s) THEN 0
    ELSE IF s[from] = ch THEN from ELSE Find(s, ch, from + 1)

RECURSIVE Strip(_)
\* str.strip
Strip(s) ==
    IF s = <<>> THEN s
    ELSE IF s[1] = " " THEN Strip(Tail(s))
    ELSE IF s[Len(s)] = " " THEN Strip(SubSeq(s, 1, Len(s) - 1))
    ELSE s

RECURSIVE BracedItems(_, _)
\* on_drop's loop over the {...} groups of the event's data
BracedItems(data, start) ==
    IF start = 0 THEN <<>>
    ELSE LET end == Find(data, "}", start)
         IN IF end = 0 THEN <<>>
            ELSE <<SubSeq(data, start + 1, end - 1)>> \o BracedItems(data, Find(data, "{", end))

DropItems(data) ==
    IF Find(data, "{", 1) # 0 /\ Find(data, "}", 1) # 0
    THEN BracedItems(data, Find(data, "{", 1))
    ELSE <<Strip(data)>>

RECURSIVE DropFrom(_, _, _, _, _)
\* on_drop: the loop over the dropped items
DropFrom(list, items, protected, files, i) ==
    IF i > Len(items) THEN list
    ELSE LET item == Strip(items[i])
         IN IF item = <<>> THEN DropFrom(list, items, protected, files, i + 1)
            ELSE IF isfile(item, files) /\ item \notin SeqRange(list)
            THEN DropFrom(IF is_protected_location(item, protected) THEN list ELSE Append(list, item),
                          items, protected, files, i + 1)
            ELSE IF isdir(item)
            THEN DropFrom(_add_folder_contents(list, item, protected, files, 1),
                          items, protected, files, i + 1)
            ELSE DropFrom(list, items, protected, files, i + 1)

RECURSIVE CliWalk(_, _, _, _)
\* shred_files_cli: the os.walk loop over one directory argument
CliWalk(path, protected, files, i) ==
    IF i > Len(WalkOrder) THEN <<>>
    ELSE LET f == WalkOrder[i]
             found == WalkPath(path, f)
         IN (IF /\ f \in files
                /\ f # abspath(path)
                /\ LiesUnder(f, path)
                /\ ~is_protected_location(found, protected)
             THEN <<found>>
             ELSE <<>>)
            \o CliWalk(path, protected, files, i + 1)

RECURSIVE ExpandCli(_, _, _, _)
\* shred_files_cli: expanded_paths, from position i of paths
ExpandCli(paths, protected, files, i) ==
    IF i > Len(paths) THEN <<>>
    ELSE (IF isdir(paths[i])
          THEN CliWalk(paths[i], protected, files, 1)
          ELSE IF isfile(paths[i], files) /\ ~is_protected_location(paths[i], protected)
          THEN <<paths[i]>>
          ELSE <<>>)
         \o ExpandCli(paths, protected, files, i + 1)

(***************************************************************************)
(* Inputs of the handlers                                                  *)
(***************************************************************************)
\* protected_dirs of the configuration file
ConfigProtected == {<<>>, <<D_data, D_home>>, <<D_System, D_hx>>}
\* what the file dialog of add_files returns
FileSelections ==
    {<<f>> : f \in DiskFiles} \cup {<<F_shadow, F_data>>, <<F_secret, F_hx>>}
\* what the directory dialogs return
FolderSelections == {D_data, D_etc, D_home, D_hx}
ProtectSelections == {D_data, D_hx}
Brace(p) == <<"{">> \o p \o <<"}">>
\* event.data of a drop
DropData ==
    {F_data, <<" ">> \o F_hx, Brace(F_data) \o <<" ">> \o Brace(F_shadow),
     Brace(D_home), D_data}
\* --path arguments
CliPaths ==
    {<<F_rel>>, <<F_data>>, <<D_data, F_data>>, <<D_home, F_hx>>, <<D_etc>>,
     <<F_secret, F_data, F_hx>>}

AppInit ==
    /\ cli_mode \in BOOLEAN
    /\ files_to_shred = <<>>
    /\ disk = DiskFiles
    /\ \E custom_dirs \in ConfigProtected :
           protected_dirs = _get_protected_dirs(custom_dirs, DiskFiles)
    /\ max_workers \in 1..MaxWorkers
    /\ adv_open = FALSE
    /\ ui_enabled = TRUE
    /\ b_pc = "idle"
    /\ total_files = 0
    /\ success_count = 0
    /\ futures = <<>>
    /\ seq_i = 0
    /\ outcomes = <<>>
    /\ batch_protected = {}
    /\ batch_list = <<>>
    /\ batches = 0
    /\ busy_events = 0

\* a batch is running
Busy == b_pc \in {"started", "pool", "seq", "summary"}

\* the count of window events handled during a batch
WhileBusy ==
    /\ Busy => busy_events < MaxBusyEvents
    /\ busy_events' = IF Busy THEN busy_events + 1 ELSE busy_events

\* add_files: the "Add Files" button
add_files ==
    /\ ~cli_mode /\ ui_enabled
    /\ \E files \in FileSelections :
           /\ \A i \in 1..Len(files) : files[i] \in disk
           /\ files_to_shred' = AddFilesFrom(files_to_shred, files, protected_dirs, 1)
    /\ Len(files_to_shred') <= MaxList
    /\ UNCHANGED <<cli_mode, protected_dirs, adv_open, max_workers>>
    /\ UNCHANGED batchVars
    /\ UNCHANGED busy_events
    /\ UNCHANGED appFrame

\* add_folder: the "Add Folder" button
add_folder ==
    /\ ~cli_mode /\ ui_enabled
    /\ \E folder \in FolderSelections :
           files_to_shred' = _add_folder_contents(files_to_shred, folder, protected_dirs, disk, 1)
    /\ Len(files_to_shred') <= MaxList
    /\ UNCHANGED <<cli_mode, protected_dirs, adv_open, max_workers>>
    /\ UNCHANGED batchVars
    /\ UNCHANGED busy_events
    /\ UNCHANGED appFrame

\* on_drop: bound to the window's <<Drop>> event; toggle_ui does not touch it
on_drop ==
    /\ ~cli_mode
    /\ \E data \in DropData :
           files_to_shred' = DropFrom(files_to_shred, DropItems(data), protected_dirs, disk, 1)
    /\ Len(files_to_shred') <= MaxList
    /\ UNCHANGED <<cli_mode, protected_dirs, adv_open, max_workers>>
    /\ UNCHANGED batchVars
    /\ WhileBusy
    /\ UNCHANGED appFrame

\* clear_files: the "Clear List" button
clear_files ==
    /\ ~cli_mode /\ ui_enabled
    /\ files_to_shred' = <<>>
    /\ UNCHANGED <<cli_mode, protected_dirs, adv_open, max_workers>>
    /\ UNCHANGED batchVars
    /\ UNCHANGED busy_events
    /\ UNCHANGED appFrame

\* show_advanced_options: the "Advanced..." button opens the dialog
show_advanced_options ==
    /\ ~cli_mode /\ ui_enabled
    /\ ~adv_open
    /\ adv_open' = TRUE
    /\ UNCHANGED <<cli_mode, files_to_shred, protected_dirs, max_workers>>
    /\ UNCHANGED batchVars
    /\ UNCHANGED busy_events
    /\ UNCHANGED appFrame

\* add_protected_dir: the dialog's "Add" button
add_protected_dir ==
    /\ adv_open
    /\ \E dir_path \in ProtectSelections :
           /\ dir_path \notin protected_dirs
           /\ protected_dirs' = protected_dirs \cup {dir_path}
    /\ UNCHANGED <<cli_mode, files_to_shred, adv_open, max_workers>>
    /\ UNCHANGED batchVars
    /\ WhileBusy
    /\ UNCHANGED appFrame

\* remove_protected_dir: the dialog's "Remove" button
remove_protected_dir ==
    /\ adv_open
    /\ \E selected \in protected_dirs :
           protected_dirs' = protected_dirs \ {selected}
    /\ UNCHANGED <<cli_mode, files_to_shred, adv_open, max_workers>>
    /\ UNCHANGED batchVars
    /\ WhileBusy
    /\ UNCHANGED appFrame

\* save_advanced_options: the dialog's "Save" button
save_advanced_options ==
    /\ adv_open
    /\ max_workers' \in 1..MaxWorkers
    /\ adv_open' = FALSE
    /\ UNCHANGED <<cli_mode, files_to_shred, protected_dirs>>
    /\ UNCHANGED batchVars
    /\ WhileBusy
    /\ UNCHANGED appFrame

(***************************************************************************)
(* Batch scheduler                                                         *)
(***************************************************************************)
\* What one shred_file call can return: it catches every Exception and
\* returns False, and returns False at once for a path that does not exist.
shred_file_results(file, files) ==
    IF isfile(file, files) THEN BOOLEAN ELSE {FALSE}

\* the file system after the call: a success has removed the file
disk_after(file, files, ok) ==
    IF ok THEN files \ {abspath(file)} ELSE files

\* start_shredding in the window: the "Shred Files" button, confirmed
start_shredding ==
    /\ ~cli_mode /\ ui_enabled
    /\ b_pc = "idle"
    /\ files_to_shred # <<>>
    /\ batches < MaxBatches
    /\ batches' = batches + 1
    /\ ui_enabled' = FALSE
    /\ b_pc' = "started"
    /\ UNCHANGED <<cli_mode, total_files, success_count, futures, seq_i, outcomes,
                   batch_protected, batch_list, disk>>
    /\ UNCHANGED listVars
    /\ UNCHANGED appFrame

\* shred_files_cli, with the start_shredding it calls
shred_files_cli ==
    /\ cli_mode
    /\ b_pc = "idle"
    /\ \E paths \in CliPaths :
           files_to_shred' = ExpandCli(paths, protected_dirs, disk, 1)
    /\ b_pc' = IF files_to_shred' = <<>> THEN "exited" ELSE "started"
    /\ UNCHANGED <<cli_mode, protected_dirs, adv_open, max_workers, busy_events>>
    /\ UNCHANGED <<total_files, success_count, futures, seq_i, outcomes,
                   batch_protected, batch_list, disk, ui_enabled, batches>>
    /\ UNCHANGED appFrame

\* shred_files_threaded, line 621-638: the counters, the branch, the submits
BatchBegin ==
    /\ b_pc = "started"
    /\ total_files' = Len(files_to_shred)
    /\ success_count' = 0
    /\ outcomes' = <<>>
    /\ batch_protected' = protected_dirs
    /\ batch_list' = files_to_shred
    /\ seq_i' = 0
    /\ IF max_workers > 1 /\ Len(files_to_shred) > 1
       THEN /\ futures' = [k \in 1..Len(files_to_shred) |->
                              [file |-> files_to_shred[k], st |-> "pending",
                               result |-> FALSE, collected |-> FALSE]]
            /\ b_pc' = "pool"
       ELSE /\ futures' = <<>>
            /\ b_pc' = "seq"
    /\ UNCHANGED <<cli_mode, disk, ui_enabled, batches>>
    /\ UNCHANGED listVars
    /\ UNCHANGED appFrame

Running == {k \in 1..Len(futures) : futures[k].st = "running"}

\* a pool thread takes the oldest pending call
PoolStart ==
    /\ b_pc = "pool"
    /\ Cardinality(Running) < max_workers
    /\ \E k \in 1..Len(futures) :
           /\ futures[k].st = "pending"
           /\ \A j \in 1..(k - 1) : futures[j].st # "pending"
           /\ futures' = [futures EXCEPT ![k].st = "running"]
    /\ UNCHANGED <<cli_mode, b_pc, total_files, success_count, seq_i, outcomes,
                   batch_protected, batch_list, disk, ui_enabled, batches>>
    /\ UNCHANGED listVars
    /\ UNCHANGED appFrame

\* the call of a pool thread returns
PoolFinish ==
    /\ b_pc = "pool"
    /\ \E k \in Running :
           \E ok \in shred_file_results(futures[k].file, disk) :
               /\ futures' = [futures EXCEPT ![k].st = "done", ![k].result = ok]
               /\ outcomes' = Append(outcomes, [file |-> futures[k].file, ok |-> ok])
               /\ disk' = disk_after(futures[k].file, disk, ok)
    /\ UNCHANGED <<cli_mode, b_pc, total_files, success_count, seq_i,
                   batch_protected, batch_list, ui_enabled, batches>>
    /\ UNCHANGED listVars
    /\ UNCHANGED appFrame

\* the count after one future_result of the as_completed loop, line 641-642
count_result(count, future_result) ==
    IF future_result THEN count + 1 ELSE count

\* one turn of the as_completed loop
Collect ==
    /\ b_pc = "pool"
    /\ \E k \in 1..Len(futures) :
           /\ futures[k].st = "done"
           /\ ~futures[k].collected
           /\ futures' = [futures EXCEPT ![k].collected = TRUE]
           /\ success_count' = count_result(success_count, futures[k].result)
    /\ UNCHANGED <<cli_mode, b_pc, total_files, seq_i, outcomes,
                   batch_protected, batch_list, disk, ui_enabled, batches>>
    /\ UNCHANGED listVars
    /\ UNCHANGED appFrame

\* as_completed is exhausted and the executor shut down
PoolExit ==
    /\ b_pc = "pool"
    /\ \A k \in 1..Len(futures) : futures[k].collected
    /\ b_pc' = "summary"
    /\ UNCHANGED <<cli_mode, total_files, success_count, futures, seq_i, outcomes,
                   batch_protected, batch_list, disk, ui_enabled, batches>>
    /\ UNCHANGED listVars
    /\ UNCHANGED appFrame

\* one turn of the sequential loop, line 649-659: the iterator reads the list
\* itself, at its position
SeqIter ==
    /\ b_pc = "seq"
    /\ seq_i < Len(files_to_shred)
    /\ LET file == files_to_shred[seq_i + 1]
       IN \E ok \in shred_file_results(file, disk) :
              /\ success_count' = count_result(success_count, ok)
              /\ outcomes' = Append(outcomes, [file |-> file, ok |-> ok])
              /\ disk' = disk_after(file, disk, ok)
    /\ seq_i' = seq_i + 1
    /\ UNCHANGED <<cli_mode, b_pc, total_files, futures, batch_protected, batch_list,
                   ui_enabled, batches>>
    /\ UNCHANGED listVars
    /\ UNCHANGED appFrame

SeqExit ==
    /\ b_pc = "seq"
    /\ seq_i >= Len(files_to_shred)
    /\ b_pc' = "summary"
    /\ UNCHANGED <<cli_mode, total_files, success_count, futures, seq_i, outcomes,
                   batch_protected, batch_list, disk, ui_enabled, batches>>
    /\ UNCHANGED listVars
    /\ UNCHANGED appFrame

\* line 661-670: the summary, toggle_ui(True), files_to_shred.clear()
BatchEnd ==
    /\ b_pc = "summary"
    /\ files_to_shred' = <<>>
    /\ ui_enabled' = TRUE
    /\ b_pc' = IF cli_mode THEN "exited" ELSE "idle"
    /\ total_files' = 0
    /\ success_count' = 0
    /\ futures' = <<>>
    /\ seq_i' = 0
    /\ outcomes' = <<>>
    /\ batch_protected' = {}
    /\ batch_list' = <<>>
    /\ busy_events' = 0
    /\ UNCHANGED <<cli_mode, protected_dirs, adv_open, max_workers, disk, batches>>
    /\ UNCHANGED appFrame

AppNext ==
    \/ add_files
    \/ add_folder
    \/ on_drop
    \/ clear_files
    \/ show_advanced_options
    \/ add_protected_dir
    \/ remove_protected_dir
    \/ save_advanced_options
    \/ start_shredding
    \/ shred_files_cli
    \/ BatchBegin
    \/ PoolStart
    \/ PoolFinish
    \/ Collect
    \/ PoolExit
    \/ SeqIter
    \/ SeqExit
    \/ BatchEnd

(***************************************************************************)
(* Shred executor: one call of shred_file                                  *)
(***************************************************************************)

\* the request, the configuration and the environment of one call
shredInputs == <<os_name, locked, openable, size0, chunk_size, passes, verify,
                 destroy_metadata, pattern_var, gutmann_patterns>>

\* Names of the file's directory: the requested path and the names
\* f"shred_{random.randint(0, 9999999)}" of destroy_metadata.
Target == <<"target">>
ShredName(r) == <<"shred", r>>
Names == {Target} \cup {ShredName(r) : r \in 0..MaxRand}

\* An entry of dir is 0 (no file), 1 (the file to shred) or 2 (another file).
\* a byte of the file as it was before the call
Orig == -1

\* the multiplier of line 496
ChunkFactor == 10

FileSizes ==
    (0..MaxSmall) \cup {ChunkFactor * c + d : c \in 1..MaxChunk, d \in 0..MaxOver}
ChunkSizes == {-1, 0} \cup (1..MaxChunk)

InitialDir(target_exists, sibling) ==
    [n \in Names |->
        IF n = Target THEN (IF target_exists THEN 1 ELSE 0)
        ELSE IF n = ShredName(0) /\ sibling THEN 2 ELSE 0]

InitialContent(size) == [k \in 1..size |-> Orig]

\* Inputs the call never reads in a scenario are held at one value there.
\* The renames read the directory only and the passes the content only, so
\* sizes, chunk sizes and patterns vary in the calls that keep the metadata,
\* and the directory and the platform in the calls that destroy it.
ShredInit ==
    /\ os_name \in {"posix", "nt"}
    /\ locked \in BOOLEAN
    /\ openable \in BOOLEAN
    /\ \E target_exists \in BOOLEAN, sibling \in BOOLEAN :
           /\ dir = InitialDir(target_exists, sibling)
           /\ ~(target_exists /\ ~locked /\ openable) => size0 = MaxSmall
           /\ ~target_exists => (~locked /\ openable /\ ~sibling)
           /\ ~sibling => os_name = "posix"
    /\ size0 \in FileSizes
    /\ content = InitialContent(size0)
    /\ mtime_random = FALSE
    /\ chunk_size \in ChunkSizes
    /\ passes \in 0..MaxPasses
    /\ verify \in BOOLEAN
    /\ destroy_metadata \in BOOLEAN
    /\ ~destroy_metadata => (dir[ShredName(0)] = 0)
    /\ destroy_metadata =>
           (size0 = MaxSmall /\ chunk_size = 1 /\ pattern_var = "DoD 5220.22-M")
    /\ cli_mode \in BOOLEAN
    /\ pattern_var \in PatternNames
    /\ cli_mode => pattern_var = "DoD 5220.22-M"
    /\ (locked \/ ~openable \/ dir[Target] = 0) =>
           (chunk_size = 1 /\ passes = MaxPasses /\ cli_mode /\ verify)
    /\ \E r \in RandomBytes :
           /\ gutmann_patterns = _generate_gutmann_patterns(r)
           /\ pattern_var # "Gutmann" => r = 19
    /\ s_pc = "call"
    /\ file_path = Target
    /\ file_size = 0
    /\ temp_name = Target
    /\ renames = 0
    /\ names_used = <<>>
    /\ pass_i = 0
    /\ writes = <<>>
    /\ result = FALSE

\* is_file_locked: the probe opens the file r+b and tries a non-blocking
\* exclusive lock; any error of the open is answered False
is_file_locked(can_open, held) ==
    IF ~can_open THEN FALSE ELSE held

\* os.rename on the directory
os_rename(d, old, new) ==
    IF old = new THEN d ELSE [d EXCEPT ![new] = d[old], ![old] = 0]

\* os.remove that leaves the entry in place
os_remove_keeps_entry(d, name) == d

\* os.remove on the directory
os_remove(d, name) == [d EXCEPT ![name] = 0]

\* verify_shred, line 447: not (exists(p) or getsize(p)) == 0 reads as
\* not ((exists(p) or getsize(p)) == 0); getsize raises for a missing file
\* and the handler answers True
verify_shred(d, name) ==
    IF d[name] # 0
    THEN ~(1 = 0)
    ELSE TRUE


\* the chunks of one pass, line 496-502, from position pos of the loop
RECURSIVE ChunksFrom(_, _, _, _)
ChunksFrom(pattern, size, chunk, pos) ==
    IF pos >= size THEN <<>>
    ELSE <<IF Len(pattern) > 1
           THEN Slice(pattern, pos, pos + chunk)
           ELSE Slice(pattern, 0, chunk)>>
         \o ChunksFrom(pattern, size, chunk, pos + chunk)

\* the buffers handed to file.write in one pass, in order
PassChunks(pattern, size, chunk) ==
    IF size > chunk * ChunkFactor
    THEN IF chunk < 0 THEN <<>> ELSE ChunksFrom(pattern, size, chunk, 0)
    ELSE <<Slice(pattern, 0, size)>>

RECURSIVE Concat(_, _)
\* the first n buffers, joined
Concat(chunks, n) ==
    IF n = 0 THEN <<>> ELSE Concat(chunks, n - 1) \o chunks[n]

\* the file after writing buf from offset 0
Overwrite(old, buf) ==
    IF Len(buf) >= Len(old) THEN buf ELSE buf \o SubSeq(old, Len(buf) + 1, Len(old))


\* line 476-478: the path does not exist
ShredNotFound ==
    /\ s_pc = "call"
    /\ dir[file_path] = 0
    /\ result' = FALSE
    /\ s_pc' = "returned"
    /\ UNCHANGED <<dir, content, mtime_random, file_path, file_size, temp_name,
                   renames, names_used, pass_i, writes>>
    /\ UNCHANGED <<shredInputs, cli_mode, shredFrame>>

\* line 476, 480-481: the path exists; the lock probe
ShredProbe ==
    /\ s_pc = "call"
    /\ dir[file_path] # 0
    /\ IF is_file_locked(openable, locked)
       THEN /\ result' = FALSE
            /\ s_pc' = "returned"
       ELSE /\ result' = result
            /\ s_pc' = "getsize"
    /\ UNCHANGED <<dir, content, mtime_random, file_path, file_size, temp_name,
                   renames, names_used, pass_i, writes>>
    /\ UNCHANGED <<shredInputs, cli_mode, shredFrame>>

\* line 483-488: the size is read once; destroy_metadata is entered or not
ShredGetSize ==
    /\ s_pc = "getsize"
    /\ file_size' = Len(content)
    /\ s_pc' = IF destroy_metadata THEN "utime" ELSE "open"
    /\ UNCHANGED <<dir, content, mtime_random, file_path, temp_name,
                   renames, names_used, pass_i, writes, result>>
    /\ UNCHANGED <<shredInputs, cli_mode, shredFrame>>

\* destroy_metadata, line 424-429: os.utime with a random time; an error
\* leaves the function through its handler, which returns file_path
MetaUtime ==
    /\ s_pc = "utime"
    /\ \E ok \in BOOLEAN :
           IF ok
           THEN /\ mtime_random' = TRUE
                /\ s_pc' = "rename"
           ELSE /\ mtime_random' = mtime_random
                /\ s_pc' = "open"
    /\ temp_name' = file_path
    /\ renames' = 0
    /\ UNCHANGED <<dir, content, file_path, file_size, names_used, pass_i, writes,
                   result>>
    /\ UNCHANGED <<shredInputs, cli_mode, shredFrame>>

\* whether os.rename(old, new) goes through: Windows refuses an existing
\* target, POSIX replaces it; ok is every other reason to fail
rename_succeeds(d, old, new, ok) ==
    /\ ok
    /\ os_name = "nt" => (d[new] = 0 \/ new = old)

\* destroy_metadata, line 430-436: one turn of the rename loop
MetaRename ==
    /\ s_pc = "rename"
    /\ renames < 3
    /\ \E r \in 0..MaxRand, ok \in BOOLEAN :
           LET new_name == ShredName(r)
           IN IF rename_succeeds(dir, temp_name, new_name, ok)
              THEN /\ dir' = os_rename(dir, temp_name, new_name)
                   /\ temp_name' = new_name
                   /\ names_used' = Append(names_used, new_name)
                   /\ renames' = renames + 1
                   /\ s_pc' = "rename"
                   /\ file_path' = file_path
              ELSE /\ file_path' = temp_name
                   /\ s_pc' = "open"
                   /\ UNCHANGED <<dir, temp_name, names_used, renames>>
    /\ UNCHANGED <<content, mtime_random, file_size, pass_i, writes, result>>
    /\ UNCHANGED <<shredInputs, cli_mode, shredFrame>>

\* destroy_metadata, line 438, and line 488: the last name becomes file_path
MetaReturn ==
    /\ s_pc = "rename"
    /\ renames >= 3
    /\ file_path' = temp_name
    /\ s_pc' = "open"
    /\ UNCHANGED <<dir, content, mtime_random, file_size, temp_name, renames,
                   names_used, pass_i, writes, result>>
    /\ UNCHANGED <<shredInputs, cli_mode, shredFrame>>

\* line 490: open(file_path, "r+b")
ShredOpen ==
    /\ s_pc = "open"
    /\ IF openable /\ dir[file_path] # 0
       THEN /\ s_pc' = "pass"
            /\ result' = result
       ELSE /\ s_pc' = "returned"
            /\ result' = FALSE
    /\ pass_i' = 0
    /\ UNCHANGED <<dir, content, mtime_random, file_path, file_size, temp_name,
                   renames, names_used, writes>>
    /\ UNCHANGED <<shredInputs, cli_mode, shredFrame>>

\* the loop with its last turn left out
more_passes_but_last(i, n) == i < n - 1

\* line 491: for i in range(passes) has a turn for i
more_passes(i, n) == i < n

\* get_overwrite_pattern, line 453: the pattern's name
pattern_name == IF ~cli_mode THEN pattern_var ELSE "DoD 5220.22-M"

\* line 491-505: one pass; io is 0 when every write and the sync went
\* through, k when write number k failed, and one more than the number of
\* writes when the sync failed
ShredPass ==
    /\ s_pc = "pass"
    /\ more_passes(pass_i, passes)
    /\ \E r \in RandomBytes :
           LET pattern == get_overwrite_pattern(pass_i, file_size, pattern_name,
                                                gutmann_patterns, r)
               chunks == PassChunks(pattern, file_size, chunk_size)
           IN IF file_size > chunk_size * ChunkFactor /\ chunk_size = 0
              THEN \* range() arg 3 must not be zero
                   /\ s_pc' = "returned"
                   /\ result' = FALSE
                   /\ UNCHANGED <<content, writes, pass_i>>
              ELSE \E io \in 0..(Len(chunks) + 1) :
                       IF io = 0
                       THEN /\ content' = Overwrite(content, Concat(chunks, Len(chunks)))
                            /\ writes' = Append(writes, [k \in 1..Len(chunks) |-> Len(chunks[k])])
                            /\ pass_i' = pass_i + 1
                            /\ s_pc' = "pass"
                            /\ result' = result
                       ELSE /\ content' = Overwrite(content,
                                              Concat(chunks, io - 1))
                            /\ s_pc' = "returned"
                            /\ result' = FALSE
                            /\ UNCHANGED <<writes, pass_i>>
    /\ UNCHANGED <<dir, mtime_random, file_path, file_size, temp_name, renames,
                   names_used>>
    /\ UNCHANGED <<shredInputs, cli_mode, shredFrame>>

\* what follows os.remove, line 508: an error goes to the handler
after_remove(ok) == IF ok THEN "verify" ELSE "returned"

\* line 491, 508: the passes are over, the file is closed and removed
ShredRemove ==
    /\ s_pc = "pass"
    /\ ~more_passes(pass_i, passes)
    /\ \E ok \in BOOLEAN :
           /\ dir' = IF ok THEN os_remove(dir, file_path) ELSE dir
           /\ s_pc' = after_remove(ok)
           /\ result' = IF ok THEN result ELSE FALSE
    /\ UNCHANGED <<content, mtime_random, file_path, file_size, temp_name, renames,
                   names_used, pass_i, writes>>
    /\ UNCHANGED <<shredInputs, cli_mode, shredFrame>>

\* line 511-515: the verification and the success
ShredVerify ==
    /\ s_pc = "verify"
    /\ result' = IF verify /\ ~verify_shred(dir, file_path) THEN FALSE ELSE TRUE
    /\ s_pc' = "returned"
    /\ UNCHANGED <<dir, content, mtime_random, file_path, file_size, temp_name,
                   renames, names_used, pass_i, writes>>
    /\ UNCHANGED <<shredInputs, cli_mode, shredFrame>>

ShredNext ==
    \/ ShredNotFound
    \/ ShredProbe
    \/ ShredGetSize
    \/ MetaUtime
    \/ MetaRename
    \/ MetaReturn
    \/ ShredOpen
    \/ ShredPass
    \/ ShredRemove
    \/ ShredVerify

\* the shred executor's variables, the chunk size apart, while no call of
\* shred_file is looked at
ShredIdle ==
    /\ os_name = "posix"
    /\ locked = FALSE
    /\ openable = TRUE
    /\ dir = InitialDir(FALSE, FALSE)
    /\ content = <<>>
    /\ mtime_random = FALSE
    /\ size0 = 0
    /\ passes = 0
    /\ verify = TRUE
    /\ destroy_metadata = TRUE
    /\ pattern_var = "DoD 5220.22-M"
    /\ gutmann_patterns = <<>>
    /\ s_pc = "idle"
    /\ file_path = Target
    /\ file_size = 0
    /\ temp_name = Target
    /\ renames = 0
    /\ names_used = <<>>
    /\ pass_i = 0
    /\ writes = <<>>
    /\ result = FALSE

ShredQuiet == ShredIdle /\ chunk_size = 1

\* the window's and the batch's variables while one call is looked at
AppIdle ==
    /\ files_to_shred = <<>>
    /\ disk = DiskFiles
    /\ max_workers = 1
    /\ adv_open = FALSE
    /\ ui_enabled = TRUE
    /\ b_pc = "idle"
    /\ total_files = 0
    /\ success_count = 0
    /\ futures = <<>>
    /\ seq_i = 0
    /\ outcomes = <<>>
    /\ batch_protected = {}
    /\ batch_list = <<>>
    /\ batches = 0
    /\ busy_events = 0

AppQuiet == AppIdle /\ protected_dirs = {}

(***************************************************************************)
(* The path guard asked about one path.                                    *)
(***************************************************************************)
\* directories that configuration or add_protected_dir put into the set
GuardDirs == {D_etc, D_home, D_Documents, D_docetc, D_hx, D_data}

\* the paths the guard is asked about
GuardPaths == DiskFiles \cup DiskDirs \cup {F_rel, D_Desktop, D_Downloads, D_System}

GuardInit ==
    /\ cli_mode \in BOOLEAN
    /\ protected_dirs \in SUBSET GuardDirs
    /\ g_pc = "idle"
    /\ asked = <<>>
    /\ answer = FALSE

\* a caller asks is_protected_location(path)
AskGuard ==
    /\ \E path \in GuardPaths :
           /\ asked' = path
           /\ answer' = is_protected_location(path, protected_dirs)
    /\ g_pc' = "answered"
    /\ UNCHANGED guardFrame

GuardNext == AskGuard

\* the guard while it is not looked at
GuardQuiet ==
    /\ g_pc = "idle"
    /\ asked = <<>>
    /\ answer = FALSE

(***************************************************************************)
(* The log sink: log called by several threads at once.                    *)
(***************************************************************************)

\* threads that call log at the same time (the pool's workers)
MaxLoggers == 2
\* events each of them emits
MaxEvents == 2

Loggers == 1..MaxLoggers

\* What reaches the sink: the text of event n of thread w, and the line
\* terminator written for it.
TextOf(w, n) == <<"text", w, n>>
EndOf(w, n) == <<"end", w, n>>

\* line 171: the log area is created disabled
LogInit ==
    /\ cli_mode \in BOOLEAN
    /\ l_pc = [w \in Loggers |-> "idle"]
    /\ emitted = [w \in Loggers |-> 0]
    /\ sink = <<>>
    /\ widget_state = "disabled"

\* line 258-263: a thread enters log with its next event
LogCall(w) ==
    /\ l_pc[w] = "idle"
    /\ emitted[w] < MaxEvents
    /\ emitted' = [emitted EXCEPT ![w] = @ + 1]
    /\ l_pc' = [l_pc EXCEPT ![w] = IF cli_mode THEN "text" ELSE "normal"]
    /\ UNCHANGED <<sink, widget_state>>
    /\ UNCHANGED logFrame

\* line 271: print writes the text to the stream ...
PrintText(w) ==
    /\ l_pc[w] = "text"
    /\ sink' = Append(sink, TextOf(w, emitted[w]))
    /\ l_pc' = [l_pc EXCEPT ![w] = "end"]
    /\ UNCHANGED <<emitted, widget_state>>
    /\ UNCHANGED logFrame

\* ... and then its end, in a second write
PrintEnd(w) ==
    /\ l_pc[w] = "end"
    /\ sink' = Append(sink, EndOf(w, emitted[w]))
    /\ l_pc' = [l_pc EXCEPT ![w] = "idle"]
    /\ UNCHANGED <<emitted, widget_state>>
    /\ UNCHANGED logFrame

\* line 274: log_area.config(state='normal')
ConfigNormal(w) ==
    /\ l_pc[w] = "normal"
    /\ widget_state' = "normal"
    /\ l_pc' = [l_pc EXCEPT ![w] = "insert"]
    /\ UNCHANGED <<emitted, sink>>
    /\ UNCHANGED logFrame

\* line 275: log_area.insert(END, msg + "\n"); a disabled text widget
\* ignores the insertion
Insert(w) ==
    /\ l_pc[w] = "insert"
    /\ sink' = IF widget_state = "normal"
               THEN sink \o <<TextOf(w, emitted[w]), EndOf(w, emitted[w])>>
               ELSE sink
    /\ l_pc' = [l_pc EXCEPT ![w] = "disabled"]
    /\ UNCHANGED <<emitted, widget_state>>
    /\ UNCHANGED logFrame

\* line 276-281: the tags, config(state='disabled'), see, update_idletasks
ConfigDisabled(w) ==
    /\ l_pc[w] = "disabled"
    /\ widget_state' = "disabled"
    /\ l_pc' = [l_pc EXCEPT ![w] = "idle"]
    /\ UNCHANGED <<emitted, sink>>
    /\ UNCHANGED logFrame

LogNext ==
    \E w \in Loggers :
        \/ LogCall(w)
        \/ PrintText(w)
        \/ PrintEnd(w)
        \/ ConfigNormal(w)
        \/ Insert(w)
        \/ ConfigDisabled(w)

\* the sink while nothing logs
LogQuiet ==
    /\ l_pc = [w \in Loggers |-> "idle"]
    /\ emitted = [w \in Loggers |-> 0]
    /\ sink = <<>>
    /\ widget_state = "disabled"

(***************************************************************************)
(* wipe_free_space                                                         *)
(***************************************************************************)

\* largest free space, in bytes, the volume reports
MaxFree == 21

\* line 546 and 550: int(free_space * 0.95); the product is kept as the
\* fraction 19 * free_space / 20
int_wipe_size(free) == (19 * free) \div 20

\* fill_is_int without the comparison: every write takes a whole chunk
fill_whole_chunk(chunk, free, at) == TRUE

\* line 551: min(chunk_size, wipe_size - f.tell()) is chunk_size, an int,
\* unless the float remainder is smaller; os.urandom refuses a float
fill_is_int(chunk, free, at) == 20 * chunk <= 19 * free - 20 * at

WipeInit ==
    /\ cli_mode \in BOOLEAN
    /\ free_space \in 0..MaxFree
    /\ chunk_size \in ChunkSizes
    /\ w_pc = "call"
    /\ temp_exists = FALSE
    /\ created = FALSE
    /\ tell = 0
    /\ fill_at = 0
    /\ shred_called = FALSE
    /\ success = FALSE

\* line 523-541: the free space query, which may raise, and the check
WipeQuery ==
    /\ w_pc = "call"
    /\ \E ok \in BOOLEAN :
           w_pc' = IF ok /\ ~(free_space <= 0) THEN "open" ELSE "returned"
    /\ UNCHANGED <<free_space, temp_exists, created, tell, fill_at, shred_called, success>>
    /\ UNCHANGED wipeFrame

\* line 546-550: the file is created; range() refuses a step of zero
WipeOpen ==
    /\ w_pc = "open"
    /\ \E ok \in BOOLEAN :
           /\ temp_exists' = ok
           /\ created' = ok
           /\ w_pc' = IF ok /\ chunk_size # 0 THEN "fill" ELSE "returned"
    /\ UNCHANGED <<free_space, tell, fill_at, shred_called, success>>
    /\ UNCHANGED wipeFrame

\* line 550: the loop has another turn
fill_continues == chunk_size > 0 /\ fill_at < int_wipe_size(free_space)

\* line 550-552: one turn of the fill loop; a failed write may have put
\* part of its bytes into the file
WipeFill ==
    /\ w_pc = "fill"
    /\ fill_continues
    /\ IF fill_is_int(chunk_size, free_space, tell)
       THEN \E ok \in BOOLEAN :
                IF ok
                THEN /\ tell' = tell + chunk_size
                     /\ fill_at' = fill_at + chunk_size
                     /\ w_pc' = "fill"
                ELSE /\ \E m \in 0..(chunk_size - 1) : tell' = tell + m
                     /\ fill_at' = fill_at
                     /\ w_pc' = "returned"
       ELSE /\ w_pc' = "returned"
            /\ UNCHANGED <<tell, fill_at>>
    /\ UNCHANGED <<free_space, temp_exists, created, shred_called, success>>
    /\ UNCHANGED wipeFrame

\* line 554-563: the file is closed and handed to shred_file, whose result
\* is returned; a failed shred_file may or may not have removed the file
WipeShred ==
    /\ w_pc = "fill"
    /\ ~fill_continues
    /\ shred_called' = TRUE
    /\ \E ok \in BOOLEAN, left \in BOOLEAN :
           /\ success' = ok
           /\ temp_exists' = (~ok /\ left)
    /\ w_pc' = "returned"
    /\ UNCHANGED <<free_space, created, tell, fill_at>>
    /\ UNCHANGED wipeFrame

WipeNext ==
    \/ WipeQuery
    \/ WipeOpen
    \/ WipeFill
    \/ WipeShred

\* wipe_free_space while it is not called
WipeQuiet ==
    /\ w_pc = "idle"
    /\ free_space = 0
    /\ temp_exists = FALSE
    /\ created = FALSE
    /\ tell = 0
    /\ fill_at = 0
    /\ shred_called = FALSE
    /\ success = FALSE

(***************************************************************************)
(* The pattern generator called pass after pass, as line 491-492 does.     *)
(***************************************************************************)
\* longest buffer asked for
MaxLength == 5
\* largest pass count asked for of the generator: one turn of the Gutmann
\* table and one pass more
MaxPatternPasses == 36

PatternInit ==
    /\ cli_mode \in BOOLEAN
    /\ pattern_var \in PatternNames
    /\ cli_mode => pattern_var = "DoD 5220.22-M"
    /\ \E r \in RandomBytes :
           /\ gutmann_patterns = _generate_gutmann_patterns(r)
           /\ pattern_var # "Gutmann" => r = 19
    /\ file_size \in 0..MaxLength
    /\ size0 = file_size
    /\ passes \in 1..MaxPatternPasses
    /\ pass_i = 0
    /\ pattern_buf = <<>>
    /\ s_pc = "patterns"
    /\ os_name = "posix"
    /\ locked = FALSE
    /\ openable = TRUE
    /\ dir = InitialDir(TRUE, FALSE)
    /\ content = InitialContent(file_size)
    /\ mtime_random = FALSE
    /\ chunk_size = 1
    /\ verify = TRUE
    /\ destroy_metadata = FALSE
    /\ file_path = Target
    /\ temp_name = Target
    /\ renames = 0
    /\ names_used = <<>>
    /\ writes = <<>>
    /\ result = FALSE

\* line 491-492: pattern = self.get_overwrite_pattern(i, file_size)
PatternPass ==
    /\ s_pc = "patterns"
    /\ more_passes(pass_i, passes)
    /\ \E r \in RandomBytes :
           pattern_buf' = get_overwrite_pattern(pass_i, file_size, pattern_name,
                                                gutmann_patterns, r)
    /\ pass_i' = pass_i + 1
    /\ UNCHANGED <<dir, content, mtime_random, file_path, file_size, temp_name,
                   renames, names_used, writes, result, s_pc>>
    /\ UNCHANGED <<shredInputs, cli_mode>>
    /\ UNCHANGED <<files_to_shred, protected_dirs, disk, adv_open, ui_enabled,
                   max_workers, b_pc, total_files, success_count, futures, seq_i,
                   outcomes, batch_protected, batch_list, batches, busy_events,
                   logVars, wipeVars, guardVars>>

PatternNext == PatternPass

\* no buffer has been asked for
PatternQuiet == pattern_buf = <<>>

(***************************************************************************)
(* The specifications.                                                     *)
(***************************************************************************)
vars == <<appVars, shredVars, logVars, wipeVars, guardVars, patternVars>>

\* the window, the file list and one batch
Init == AppInit /\ ShredQuiet /\ LogQuiet /\ WipeQuiet /\ GuardQuiet /\ PatternQuiet

Next == AppNext

Spec == Init /\ [][Next]_vars

\* one call of shred_file
InitShred == ShredInit /\ AppQuiet /\ LogQuiet /\ WipeQuiet /\ GuardQuiet /\ PatternQuiet

NextShred == ShredNext

SpecShred == InitShred /\ [][NextShred]_vars

\* threads logging at the same time
InitLog == LogInit /\ AppQuiet /\ ShredQuiet /\ WipeQuiet /\ GuardQuiet /\ PatternQuiet

NextLog == LogNext

SpecLog == InitLog /\ [][NextLog]_vars

\* one call of wipe_free_space
InitWipe == WipeInit /\ AppQuiet /\ ShredIdle /\ LogQuiet /\ GuardQuiet /\ PatternQuiet

NextWipe == WipeNext

SpecWipe == InitWipe /\ [][NextWipe]_vars

\* is_protected_location asked about one path after another
InitGuard == GuardInit /\ AppIdle /\ ShredQuiet /\ LogQuiet /\ WipeQuiet /\ PatternQuiet

NextGuard == GuardNext

SpecGuard == InitGuard /\ [][NextGuard]_vars

\* get_overwrite_pattern called for pass 0, 1, 2, ...
InitPattern == PatternInit /\ AppQuiet /\ LogQuiet /\ WipeQuiet /\ GuardQuiet

NextPattern == PatternNext

SpecPattern == InitPattern /\ [][NextPattern]_vars


(***************************************************************************)
(* Claims about the file list and the batch scheduler, checked under Spec  *)
(***************************************************************************)
UnderAllowlist(p) == \E i \in 1..Len(user_dirs) : LiesUnder(p, user_dirs[i])

FilesOf(outs) == [i \in 1..Len(outs) |-> outs[i].file]

Count(seq, x) == Cardinality({i \in 1..Len(seq) : seq[i] = x})

\* C3: every path a batch hands to shred_file is one that
\* is_protected_location, asked when the batch starts, calls not protected.
C3_DispatchedUnprotected ==
    /\ \A i \in 1..Len(outcomes) :
           ~is_protected_location(outcomes[i].file, batch_protected)
    /\ \A k \in 1..Len(futures) :
           ~is_protected_location(futures[k].file, batch_protected)

\* C6: when the batch reaches its summary, each of the K requests it was
\* started with has exactly one outcome, success_count is the number of
\* calls that returned True, and successes and failures add up to K.
C6_BatchCounts ==
    b_pc = "summary" =>
        /\ total_files = Len(batch_list)
        /\ Len(outcomes) = total_files
        /\ \A f \in SeqRange(batch_list) \cup SeqRange(FilesOf(outcomes)) :
               Count(FilesOf(outcomes), f) = Count(batch_list, f)
        /\ success_count = Cardinality({i \in 1..Len(outcomes) : outcomes[i].ok})
        /\ success_count + Cardinality({i \in 1..Len(outcomes) : ~outcomes[i].ok})
               = total_files


(***************************************************************************)
(* Claims about the path guard, checked under SpecGuard.                   *)
(***************************************************************************)
answered == g_pc = "answered"

\* C4: a path that lies under the home directory, Desktop, Documents or
\* Downloads is never protected, whatever the protected set holds.
C4_AllowlistFirst ==
    (answered /\ UnderAllowlist(asked)) => ~answer

\* C4's case: ~/Documents/etc/secret was asked about while ~/Documents/etc
\* was an entry of the protected set, and the answer was "not protected".
C4_Witness ==
    /\ answered
    /\ asked = F_secret
    /\ D_docetc \in protected_dirs
    /\ LiesUnder(asked, D_docetc) /\ UnderAllowlist(asked)
    /\ ~answer

\* C5: a path outside the allowlisted user directories that lies inside a
\* directory of the protected set is protected, whichever way the directory
\* came into the set.
C5_ProtectedInsideSet ==
    (/\ answered
     /\ ~UnderAllowlist(asked)
     /\ \E d \in protected_dirs : LiesUnder(asked, d)) => answer

(***************************************************************************)
(* Claims about one call of shred_file, checked under SpecShred.           *)
(***************************************************************************)
returned == s_pc = "returned"

\* C1: whenever shred_file returns success, no file exists under the
\* requested path nor under any name destroy_metadata renamed it to.
C1_SuccessLeavesNoFile ==
    (returned /\ result) =>
        /\ dir[Target] = 0
        /\ \A k \in 1..Len(names_used) : dir[names_used[k]] = 0

\* a successful call that verified, overwrote and renamed three times
C1_Witness ==
    /\ returned /\ result
    /\ destroy_metadata /\ verify
    /\ Len(names_used) = 3
    /\ Len(writes) >= 1

\* C2: a file held under an exclusive lock by another process is left as it
\* was (timestamps, name, bytes, existence) and the call returns failure.
C2_LockedUntouched ==
    locked =>
        /\ ~mtime_random
        /\ names_used = <<>>
        /\ dir[Target] = 1
        /\ content = InitialContent(size0)
        /\ writes = <<>>
        /\ returned => ~result

RECURSIVE SumSeq(_)
SumSeq(q) == IF q = <<>> THEN 0 ELSE q[1] + SumSeq(Tail(q))

CeilDiv(a, b) == (a + b - 1) \div b

\* C10: each pass issues ceil(S / C) writes, all of length C but the last,
\* which has length S mod C (C when C divides S); a pass writes S bytes.
C10_ChunkedPass ==
    \A p \in 1..Len(writes) :
        chunk_size >= 1 =>
            LET w == writes[p]
                n == CeilDiv(file_size, chunk_size)
            IN /\ Len(w) = n
               /\ \A k \in 1..(Len(w) - 1) : w[k] = chunk_size
               /\ Len(w) >= 1 =>
                      w[Len(w)] = (IF file_size % chunk_size = 0 THEN chunk_size
                                   ELSE file_size % chunk_size)
               /\ SumSeq(w) = file_size

\* the file to shred is in the directory, under whatever name
in_directory(d) == \E n \in Names : d[n] = 1

\* C14: the file is removed only after every requested pass was written,
\* flushed and synced; a pass that fails ends the call at once with a
\* failure, the file not removed and no pass made after it.
C14_RemoveAfterPasses ==
    [][/\ (in_directory(dir) /\ ~in_directory(dir')) =>
              (pass_i = passes /\ Len(writes) = passes)
       /\ (s_pc = "pass" /\ pass_i < passes /\ pass_i' # pass_i + 1) =>
              /\ s_pc' = "returned"
              /\ result' = FALSE
              /\ dir' = dir
              /\ writes' = writes]_vars

\* a call whose second pass failed: the first pass stays written, the file
\* stays in the directory and the call has returned a failure
C14_Witness ==
    /\ returned /\ ~result
    /\ passes >= 2
    /\ Len(writes) = 1
    /\ in_directory(dir)
    /\ content # InitialContent(size0)

\* C15: verify_shred answers True only for a path that does not exist, so
\* a verified call that finds the file still there returns a failure.
C15_VerifyDetects ==
    /\ \A n \in Names : verify_shred(dir, n) => dir[n] = 0
    /\ (returned /\ result /\ verify) => dir[file_path] = 0

\* C16: a call that returns success has made at least one pass, and each of
\* its passes wrote, from offset 0 on, to every offset below the file's size.
C16_EveryByteOverwritten ==
    (returned /\ result) =>
        /\ Len(writes) >= 1
        /\ \A p \in 1..Len(writes) : SumSeq(writes[p]) >= file_size

\* C17: a call leaves every other file of the directory under its name; a
\* rename of destroy_metadata never takes the place of an existing file.
C17_SiblingsKept ==
    [][\A n \in Names : dir[n] = 2 => dir'[n] = 2]_vars

(***************************************************************************)
(* Claims about the log sink, checked under SpecLog.                       *)
(***************************************************************************)
\* C7: every event is appended atomically; each line of the sink is the
\* text of one event followed by that event's own line terminator.
C7_LinesWhole ==
    \A i \in 1..Len(sink) :
        /\ sink[i][1] = "text" =>
               (i = Len(sink) \/ sink[i + 1] = EndOf(sink[i][2], sink[i][3]))
        /\ sink[i][1] = "end" =>
               (i > 1 /\ sink[i - 1] = TextOf(sink[i][2], sink[i][3]))

(***************************************************************************)
(* Claims about wipe_free_space, checked under SpecWipe.                   *)
(***************************************************************************)
\* C8: once the temporary file has been created, wipe_free_space does not
\* return before it has handed the file to shred_file.
C8_TempAlwaysShredded ==
    (w_pc = "returned" /\ created) => shred_called

\* C9: the bytes written to the temporary file never exceed 95% of the
\* reported free space; with no free space the call fails and creates no
\* temporary file.
C9_WipeBound ==
    /\ 20 * tell <= 19 * free_space
    /\ free_space <= 0 => (~created /\ ~temp_exists /\ (w_pc = "returned" => ~success))

\* a wipe that filled the file to the limit exactly, shredded it and returned
C9_Witness ==
    /\ w_pc = "returned"
    /\ shred_called
    /\ success
    /\ tell >= 1
    /\ 20 * tell = 19 * free_space

(***************************************************************************)
(* Claims about the pattern generator, checked under SpecPattern.          *)
(***************************************************************************)
\* a buffer has been returned; it was asked for pass last_pass
generated == s_pc = "patterns" /\ pass_i >= 1
last_pass == pass_i - 1

\* buf is block repeated, cut anywhere
Tiles(buf, block) ==
    \A k \in 1..Len(buf) : buf[k] = block[((k - 1) % Len(block)) + 1]

\* C11: for every pattern, pass and length n the buffer returned has exactly
\* n bytes, and for the deterministic patterns it is the selected block
\* repeated and cut at n.
C11_ExactLength ==
    generated =>
        /\ Len(pattern_buf) = file_size
        /\ LET config == overwrite_patterns[pattern_name]
           IN /\ config.kind = "bytes" => Tiles(pattern_buf, config.pattern)
              /\ config.kind = "list" =>
                     Tiles(pattern_buf, config.pattern[(last_pass % Len(config.pattern)) + 1])
              /\ pattern_name = "Gutmann" =>
                     Tiles(pattern_buf, gutmann_patterns[(last_pass % Len(gutmann_patterns)) + 1])

\* C12: with a list pattern of L blocks, pass i uses block i mod L.
C12_BlockOfPass ==
    (generated /\ overwrite_patterns[pattern_name].kind = "list") =>
        LET blocks == overwrite_patterns[pattern_name].pattern
        IN /\ pattern_buf # <<>>
           /\ Tiles(pattern_buf, blocks[(last_pass % Len(blocks)) + 1])

\* the seventh of seven DoD passes has come back to block 0
C12_Witness ==
    /\ generated
    /\ pattern_name = "DoD 5220.22-M"
    /\ passes = 7 /\ pass_i = 7
    /\ pattern_buf[1] = 85

\* C13: the Gutmann table has 35 entries, entry 19+k is the complement of
\* entry 4+k byte by byte for 0 <= k < 15, and pass i uses entry i mod 35.
C13_GutmannTable ==
    /\ Len(gutmann_patterns) = 35
    /\ \A k \in 0..14 :
           LET low == gutmann_patterns[4 + k + 1]
               high == gutmann_patterns[19 + k + 1]
           IN /\ Len(high) = Len(low)
              /\ \A b \in 1..Len(low) : high[b] = 255 - low[b]
    /\ (generated /\ pattern_name = "Gutmann") =>
           /\ pattern_buf # <<>>
           /\ Tiles(pattern_buf, gutmann_patterns[(last_pass % 35) + 1])

\* the Gutmann pattern past one turn of the table: pass 35 uses entry 0
C13_Witness ==
    /\ generated
    /\ pattern_name = "Gutmann"
    /\ pass_i = 36
    /\ pattern_buf[1] = gutmann_patterns[1][1]
    /\ gutmann_patterns[20] = <<251, 251, 251, 251>>

====
